---- MODULE Spec2Model ----
(***************************************************************************)
(* Model of the tape simulator of src/main.cpp: the TapeDevice timing      *)
(* model, the three index strategies (NoIndexStrategy,                     *)
(* FixedIntervalIndexStrategy, HierarchicalIndexStrategy) and the factory  *)
(* that builds them.                                                       *)
(*                                                                         *)
(* A block's payload (std::vector<uint8_t> data) is modelled by its size,  *)
(* the only thing the code ever reads from it.  Simulated time is counted  *)
(* in ticks of 1/104857600 s, in which the device's three default timing   *)
(* parameters are whole numbers: one block of seek distance is 1048576     *)
(* ticks (0.01 s), one byte read 100 ticks (1/1048576 s) and one byte      *)
(* written 200 ticks (1/524288 s).  Floating-point rounding is not         *)
(* modelled.  size_t arithmetic wraps at SizeModulus, which stands for     *)
(* 2^64; every position the model reaches is far below it.                 *)
(***************************************************************************)
EXTENDS Integers, Sequences, FiniteSets, TLC

(* ---- bounds of the model ---- *)
MaxBlocks == 3
MaxId == 2
MaxPayload == 2
MaxMove == 2
MaxParam == 1
MaxWorkload == 1
MaxQueries == 1
MaxTypes == 2
MaxResults == 1
MaxLog == 2
MaxLogQueries == 2

(* ---- constants of the program ---- *)
SizeModulus == 1073741824
npos == SizeModulus - 1
TicksPerSecond == 104857600
read_speed == 1048576
write_speed == 524288
seek_time_per_block == 1048576
FixedIndexIdOffset == 1000000
Level2BlockId == 1000000
Level1BlockId == 2000000
DefaultFixedInterval == 10
DefaultLevel1 == 100
DefaultLevel2 == 10

VARIABLES blocks, current_position, current_strategy, results, frame, last

vars == <<blocks, current_position, current_strategy, results, frame, last>>

(* ---- size_t arithmetic ---- *)
SizeAdd(a, b) == (a + b) % SizeModulus
SizeSub(a, b) == (a - b + SizeModulus) % SizeModulus
SizeMul(a, b) == (a * b) % SizeModulus
Abs(x) == IF x < 0 THEN -x ELSE x

(* ---- TapeBlock ---- *)
TapeBlock(id, size, is_index) ==
    [block_id |-> id, size |-> size, is_index_block |-> is_index]

(***************************************************************************)
(* An execution of one call: the device (blocks, pos), the time summed so  *)
(* far by the caller (every caller adds each returned cost to its `time`), *)
(* whether an exception is propagating (ok = FALSE: every later step of    *)
(* the call is skipped), and the positions sought and read on the way.     *)
(***************************************************************************)
Exec(b, p) ==
    [blocks |-> b, pos |-> p, time |-> 0, ok |-> TRUE,
     reads |-> <<>>, seeks |-> <<>>]

(* ---- TapeDevice ---- *)
write_blockPrepend(st, block) ==
    IF ~st.ok THEN st
    ELSE [st EXCEPT !.blocks = <<block>> \o @,
                    !.time = @ + block.size * (TicksPerSecond \div write_speed)]

write_block(st, block) ==
    IF ~st.ok THEN st
    ELSE [st EXCEPT !.blocks = Append(@, block),
                    !.time = @ + block.size * (TicksPerSecond \div write_speed)]

read_current_blockWriteSpeed(st) ==
    IF ~st.ok THEN st
    ELSE IF st.pos >= Len(st.blocks) THEN [st EXCEPT !.ok = FALSE]
    ELSE [st EXCEPT !.time = @ + st.blocks[st.pos + 1].size
                                   * (TicksPerSecond \div write_speed),
                    !.reads = Append(@, st.pos)]

read_current_block(st) ==
    IF ~st.ok THEN st
    ELSE IF st.pos >= Len(st.blocks) THEN [st EXCEPT !.ok = FALSE]
    ELSE [st EXCEPT !.time = @ + st.blocks[st.pos + 1].size
                                   * (TicksPerSecond \div read_speed),
                    !.reads = Append(@, st.pos)]

CurrentBlock(st) == st.blocks[st.pos + 1]

(* seek variants with a slip in them, used to test the properties below *)
seek_to_blockCircular(st, block_index) ==
    IF ~st.ok THEN st
    ELSE IF block_index >= Len(st.blocks) THEN [st EXCEPT !.ok = FALSE]
    ELSE [st EXCEPT !.time = @ + ((block_index - st.pos + Len(st.blocks))
                                     % Len(st.blocks)) * seek_time_per_block,
                    !.pos = block_index,
                    !.seeks = Append(@, block_index)]

seek_to_blockMovesFirst(st, block_index) ==
    IF ~st.ok THEN st
    ELSE IF block_index >= Len(st.blocks) THEN [st EXCEPT !.ok = FALSE]
    ELSE [st EXCEPT !.time = @ + Abs(block_index - block_index) * seek_time_per_block,
                    !.pos = block_index,
                    !.seeks = Append(@, block_index)]

seek_to_blockOffByOne(st, block_index) ==
    IF ~st.ok THEN st
    ELSE IF block_index > Len(st.blocks) THEN [st EXCEPT !.ok = FALSE]
    ELSE [st EXCEPT !.time = @ + Abs(block_index - st.pos) * seek_time_per_block,
                    !.pos = block_index,
                    !.seeks = Append(@, block_index)]

seek_to_block(st, block_index) ==
    IF ~st.ok THEN st
    ELSE IF block_index >= Len(st.blocks) THEN [st EXCEPT !.ok = FALSE]
    ELSE [st EXCEPT !.time = @ + Abs(block_index - st.pos) * seek_time_per_block,
                    !.pos = block_index,
                    !.seeks = Append(@, block_index)]

move_forward(st, n) ==
    IF ~st.ok THEN st
    ELSE LET new_pos == SizeAdd(st.pos, n)
         IN  seek_to_block(st, IF new_pos >= Len(st.blocks)
                               THEN SizeSub(Len(st.blocks), 1)
                               ELSE new_pos)

move_backward(st, n) ==
    IF ~st.ok THEN st
    ELSE seek_to_block(st, IF st.pos >= n THEN st.pos - n ELSE 0)

resetKeepsPosition(st) == [st EXCEPT !.blocks = <<>>]

reset(st) == [st EXCEPT !.blocks = <<>>, !.pos = 0]

(* ---- std::unordered_map as a set of <<key, value>> pairs ---- *)
MapHas(m, k) == \E e \in m : e[1] = k
MapGet(m, k) == (CHOOSE e \in m : e[1] = k)[2]
MapPut(m, k, v) == {e \in m : e[1] # k} \cup {<<k, v>>}
MapSize(m) == Cardinality(m)

(* ---- the strategy objects ---- *)
NullStrategy ==
    [kind |-> "null", interval |-> 0, level1_interval |-> 0,
     level2_interval |-> 0, index_map |-> {}]

NoIndexStrategy == [NullStrategy EXCEPT !.kind = "none"]

FixedIntervalIndexStrategy(interval) ==
    [NullStrategy EXCEPT !.kind = "fixed", !.interval = interval]

HierarchicalIndexStrategy(level1, level2) ==
    [NullStrategy EXCEPT !.kind = "hierarchical",
                         !.level1_interval = level1, !.level2_interval = level2]

(* ---- IndexStrategyFactory ---- *)
create_strategyNoDefaults(type, param1, param2) ==
    IF type = "none" THEN [ok |-> TRUE, strategy |-> NoIndexStrategy]
    ELSE IF type = "fixed"
    THEN [ok |-> TRUE, strategy |-> FixedIntervalIndexStrategy(param1)]
    ELSE IF type = "hierarchical"
    THEN [ok |-> TRUE, strategy |-> HierarchicalIndexStrategy(param1, param2)]
    ELSE [ok |-> FALSE, strategy |-> NullStrategy]

create_strategy(type, param1, param2) ==
    IF type = "none" THEN [ok |-> TRUE, strategy |-> NoIndexStrategy]
    ELSE IF type = "fixed"
    THEN [ok |-> TRUE,
          strategy |-> FixedIntervalIndexStrategy(
                           IF param1 > 0 THEN param1 ELSE DefaultFixedInterval)]
    ELSE IF type = "hierarchical"
    THEN [ok |-> TRUE,
          strategy |-> HierarchicalIndexStrategy(
                           IF param1 > 0 THEN param1 ELSE DefaultLevel1,
                           IF param2 > 0 THEN param2 ELSE DefaultLevel2)]
    ELSE [ok |-> FALSE, strategy |-> NullStrategy]

(* ---- NoIndexStrategy ---- *)
NoIndexBuildIndex(st) == [st |-> st, map |-> {}]

RECURSIVE NoIndexScan(_, _, _, _)
NoIndexScan(st, original_pos, i, data_id) ==
    IF i >= Len(st.blocks) THEN [st |-> st, pos |-> npos]
    ELSE LET pos == (original_pos + i) % Len(st.blocks)
             s1 == read_current_block(seek_to_block(st, pos))
         IN  IF ~s1.ok THEN [st |-> s1, pos |-> npos]
             ELSE IF ~CurrentBlock(s1).is_index_block
                     /\ CurrentBlock(s1).block_id = data_id
             THEN [st |-> s1, pos |-> pos]
             ELSE NoIndexScan(s1, original_pos, i + 1, data_id)

NoIndexFindBlockFromStart(st, data_id) == NoIndexScan(st, 0, 0, data_id)

NoIndexFindBlock(st, data_id) == NoIndexScan(st, st.pos, 0, data_id)

(* ---- FixedIntervalIndexStrategy ---- *)
(* one pass through the body of the loop, with loop counter i *)
FixedBuildBodyNoAdvance(st, map, i, interval) ==
    LET s1 == read_current_block(st)
    IN  IF ~s1.ok THEN [st |-> s1, map |-> map]
        ELSE LET block == CurrentBlock(s1)
                 map1 == IF ~block.is_index_block
                         THEN MapPut(map, block.block_id, i)
                         ELSE map
                 s2 == IF ~block.is_index_block
                          /\ MapSize(map1) % interval = 0
                       THEN write_block(s1,
                                TapeBlock(block.block_id + FixedIndexIdOffset,
                                          0, TRUE))
                       ELSE s1
             IN  [st |-> s2, map |-> map1]

FixedBuildBody(st, map, i, interval) ==
    LET s1 == read_current_block(st)
    IN  IF ~s1.ok THEN [st |-> s1, map |-> map]
        ELSE LET block == CurrentBlock(s1)
                 map1 == IF ~block.is_index_block
                         THEN MapPut(map, block.block_id, i)
                         ELSE map
                 s2 == IF ~block.is_index_block
                          /\ MapSize(map1) % interval = 0
                       THEN move_forward(
                                write_block(s1,
                                    TapeBlock(block.block_id + FixedIndexIdOffset,
                                              0, TRUE)),
                                1)
                       ELSE s1
                 s3 == IF i < SizeSub(Len(s2.blocks), 1)
                       THEN move_forward(s2, 1)
                       ELSE s2
             IN  [st |-> s3, map |-> map1]

RECURSIVE FixedBuildLoop(_, _, _, _)
FixedBuildLoop(st, map, i, interval) ==
    IF i >= Len(st.blocks) THEN [st |-> st, map |-> map]
    ELSE LET b == FixedBuildBody(st, map, i, interval)
         IN  IF ~b.st.ok THEN b
             ELSE FixedBuildLoop(b.st, b.map, i + 1, interval)

FixedBuildIndexNoRestore(st, interval) ==
    LET s0 == seek_to_block(st, 0)
    IN  IF ~s0.ok THEN [st |-> s0, map |-> {}]
        ELSE LET r == FixedBuildLoop(s0, {}, 0, interval)
             IN  [st |-> r.st, map |-> r.map]

FixedBuildIndex(st, interval) ==
    LET original_pos == st.pos
        s0 == seek_to_block(st, 0)
    IN  IF ~s0.ok THEN [st |-> s0, map |-> {}]
        ELSE LET r == FixedBuildLoop(s0, {}, 0, interval)
             IN  [st |-> seek_to_block(r.st, original_pos), map |-> r.map]

FixedFindBlockNoVerify(st, map, data_id) ==
    IF ~MapHas(map, data_id) THEN [st |-> st, pos |-> npos]
    ELSE LET target_pos == MapGet(map, data_id)
             s1 == read_current_block(seek_to_block(st, target_pos))
         IN  IF ~s1.ok THEN [st |-> s1, pos |-> npos]
             ELSE [st |-> s1, pos |-> target_pos]

FixedFindBlock(st, map, data_id) ==
    IF ~MapHas(map, data_id) THEN [st |-> st, pos |-> npos]
    ELSE LET target_pos == MapGet(map, data_id)
             s1 == read_current_block(seek_to_block(st, target_pos))
         IN  IF ~s1.ok THEN [st |-> s1, pos |-> npos]
             ELSE IF CurrentBlock(s1).block_id # data_id
             THEN [st |-> s1, pos |-> npos]
             ELSE [st |-> s1, pos |-> target_pos]

(* ---- HierarchicalIndexStrategy ---- *)
RECURSIVE HierWalk(_, _, _, _)
HierWalk(st, data_blocks, i, block_count) ==
    IF i >= block_count THEN [st |-> st, data_blocks |-> data_blocks]
    ELSE LET s1 == read_current_block(st)
         IN  IF ~s1.ok THEN [st |-> s1, data_blocks |-> data_blocks]
             ELSE LET block == CurrentBlock(s1)
                      db == IF ~block.is_index_block
                            THEN Append(data_blocks, <<block.block_id, i>>)
                            ELSE data_blocks
                      s2 == IF i < SizeSub(block_count, 1)
                            THEN move_forward(s1, 1)
                            ELSE s1
                  IN  HierWalk(s2, db, i + 1, block_count)

RECURSIVE HierFill(_, _, _, _, _)
HierFill(map, data_blocks, i, level1_interval, level2_interval) ==
    IF i >= Len(data_blocks) THEN map
    ELSE LET id == data_blocks[i + 1][1]
             level2_idx == i \div level2_interval
             level1_idx == level2_idx \div level1_interval
         IN  HierFill(MapPut(map, id, <<level1_idx, level2_idx>>),
                      data_blocks, i + 1, level1_interval, level2_interval)

HierBuildIndexSwapped(st, level1_interval, level2_interval) ==
    LET original_pos == st.pos
        block_count == Len(st.blocks)
        s0 == seek_to_block(st, 0)
    IN  IF ~s0.ok THEN [st |-> s0, map |-> {}]
        ELSE LET w == HierWalk(s0, <<>>, 0, block_count)
                 s1 == write_block(w.st, TapeBlock(Level1BlockId, 0, TRUE))
                 s2 == write_block(s1, TapeBlock(Level2BlockId, 0, TRUE))
                 map == HierFill({}, w.data_blocks, 0,
                                 level1_interval, level2_interval)
             IN  [st |-> seek_to_block(s2, original_pos), map |-> map]

HierBuildIndex(st, level1_interval, level2_interval) ==
    LET original_pos == st.pos
        block_count == Len(st.blocks)
        s0 == seek_to_block(st, 0)
    IN  IF ~s0.ok THEN [st |-> s0, map |-> {}]
        ELSE LET w == HierWalk(s0, <<>>, 0, block_count)
                 s1 == write_block(w.st, TapeBlock(Level2BlockId, 0, TRUE))
                 s2 == write_block(s1, TapeBlock(Level1BlockId, 0, TRUE))
                 map == HierFill({}, w.data_blocks, 0,
                                 level1_interval, level2_interval)
             IN  [st |-> seek_to_block(s2, original_pos), map |-> map]

HierFindBlockNoVerify(st, map, level1_interval, level2_interval, data_id) ==
    IF ~MapHas(map, data_id) THEN [st |-> st, pos |-> npos]
    ELSE LET level1_idx == MapGet(map, data_id)[1]
             level2_idx == MapGet(map, data_id)[2]
             level1_pos == SizeSub(Len(st.blocks), 2)
             s1 == read_current_block(seek_to_block(st, level1_pos))
             level2_pos == SizeSub(Len(st.blocks), 1)
             s2 == read_current_block(seek_to_block(s1, level2_pos))
             computed == SizeMul(SizeAdd(SizeMul(level1_idx, level1_interval),
                                         level2_idx),
                                 level2_interval)
             target_pos == IF computed >= SizeSub(Len(st.blocks), 2)
                           THEN SizeSub(Len(st.blocks), 3)
                           ELSE computed
             s3 == read_current_block(seek_to_block(s2, target_pos))
         IN  IF ~s3.ok THEN [st |-> s3, pos |-> npos]
             ELSE [st |-> s3, pos |-> target_pos]

HierFindBlockSkipsSummaries(st, map, level1_interval, level2_interval, data_id) ==
    IF ~MapHas(map, data_id) THEN [st |-> st, pos |-> npos]
    ELSE LET level1_idx == MapGet(map, data_id)[1]
             level2_idx == MapGet(map, data_id)[2]
             computed == SizeMul(SizeAdd(SizeMul(level1_idx, level1_interval),
                                         level2_idx),
                                 level2_interval)
             target_pos == IF computed >= SizeSub(Len(st.blocks), 2)
                           THEN SizeSub(Len(st.blocks), 3)
                           ELSE computed
             s3 == read_current_block(seek_to_block(st, target_pos))
         IN  IF ~s3.ok THEN [st |-> s3, pos |-> npos]
             ELSE IF CurrentBlock(s3).block_id # data_id
             THEN [st |-> s3, pos |-> npos]
             ELSE [st |-> s3, pos |-> target_pos]

HierFindBlock(st, map, level1_interval, level2_interval, data_id) ==
    IF ~MapHas(map, data_id) THEN [st |-> st, pos |-> npos]
    ELSE LET level1_idx == MapGet(map, data_id)[1]
             level2_idx == MapGet(map, data_id)[2]
             level1_pos == SizeSub(Len(st.blocks), 2)
             s1 == read_current_block(seek_to_block(st, level1_pos))
             level2_pos == SizeSub(Len(st.blocks), 1)
             s2 == read_current_block(seek_to_block(s1, level2_pos))
             computed == SizeMul(SizeAdd(SizeMul(level1_idx, level1_interval),
                                         level2_idx),
                                 level2_interval)
             target_pos == IF computed >= SizeSub(Len(st.blocks), 2)
                           THEN SizeSub(Len(st.blocks), 3)
                           ELSE computed
             s3 == read_current_block(seek_to_block(s2, target_pos))
         IN  IF ~s3.ok THEN [st |-> s3, pos |-> npos]
             ELSE IF CurrentBlock(s3).block_id # data_id
             THEN [st |-> s3, pos |-> npos]
             ELSE [st |-> s3, pos |-> target_pos]

(* ---- inputs ---- *)
DataIds == 1..MaxId
QueryIds == 1..(MaxId + 1)
PayloadSize(id) == ((id - 1) % MaxPayload) + 1
InputBlocks ==
    {TapeBlock(id, PayloadSize(id), FALSE) : id \in DataIds}
        \cup {TapeBlock(1, 0, TRUE)}
MoveCounts == (0..MaxMove) \cup {npos}
StrategyTypes == {"none", "fixed", "hierarchical", "btree"}

(***************************************************************************)
(* The record of the last call: which operation, its argument, whether it  *)
(* returned (ok) or threw, the position and time it returned, the          *)
(* positions it sought and read, the exception it threw (if any), the      *)
(* device, strategy and result list as they were when it was called, and,  *)
(* for a harness call, one entry per strategy run it made.                 *)
(***************************************************************************)
Call(op, arg, r_st, r_pos) ==
    [op |-> op, arg |-> arg, ok |-> r_st.ok, pos |-> r_pos,
     time |-> IF r_st.ok THEN r_st.time ELSE 0,
     reads |-> r_st.reads, seeks |-> r_st.seeks,
     error |-> IF r_st.ok THEN "" ELSE "out_of_range",
     runs |-> <<>>,
     pre_blocks |-> blocks, pre_position |-> current_position,
     pre_strategy |-> current_strategy, pre_results |-> results]

NoFrame == [pc |-> "idle", i |-> 0, original_pos |-> 0,
            entry_blocks |-> <<>>, time |-> 0]

NoCall(strategy) ==
    [op |-> "init", arg |-> 0, ok |-> TRUE, pos |-> 0, time |-> 0,
     reads |-> <<>>, seeks |-> <<>>, error |-> "", runs |-> <<>>,
     pre_blocks |-> <<>>, pre_position |-> 0,
     pre_strategy |-> strategy, pre_results |-> <<>>]

Device == Exec(blocks, current_position)

Init ==
    /\ blocks = <<>>
    /\ current_position = 0
    /\ current_strategy = NullStrategy
    /\ results = <<>>
    /\ frame = NoFrame
    /\ last = NoCall(NullStrategy)

(* ---- the device's operations ---- *)
Write(block) ==
    /\ Len(blocks) < MaxBlocks
    /\ \E r \in {write_block(Device, block)} :
           /\ blocks' = r.blocks
           /\ current_position' = r.pos
           /\ last' = Call("write", block, r, 0)
    /\ UNCHANGED <<current_strategy, results, frame>>

ReadCurrent ==
    /\ \E r \in {read_current_block(Device)} :
           /\ blocks' = r.blocks
           /\ current_position' = r.pos
           /\ last' = Call("read_current", 0, r, 0)
    /\ UNCHANGED <<current_strategy, results, frame>>

Seek(target) ==
    /\ \E r \in {seek_to_block(Device, target)} :
           /\ blocks' = r.blocks
           /\ current_position' = r.pos
           /\ last' = Call("seek", target, r, 0)
    /\ UNCHANGED <<current_strategy, results, frame>>

MoveForward(n) ==
    /\ \E r \in {move_forward(Device, n)} :
           /\ blocks' = r.blocks
           /\ current_position' = r.pos
           /\ last' = Call("move_forward", n, r, 0)
    /\ UNCHANGED <<current_strategy, results, frame>>

MoveBackward(n) ==
    /\ \E r \in {move_backward(Device, n)} :
           /\ blocks' = r.blocks
           /\ current_position' = r.pos
           /\ last' = Call("move_backward", n, r, 0)
    /\ UNCHANGED <<current_strategy, results, frame>>

Reset ==
    /\ \E r \in {reset(Device)} :
           /\ blocks' = r.blocks
           /\ current_position' = r.pos
           /\ last' = Call("reset", 0, r, 0)
    /\ UNCHANGED <<current_strategy, results, frame>>

(* ---- set_strategy(create_strategy(type, param1, param2)) ---- *)
SetStrategy(type, param1, param2) ==
    /\ \E c \in {create_strategy(type, param1, param2)} :
           /\ current_strategy' = IF c.ok THEN c.strategy ELSE current_strategy
           /\ last' = [Call("set_strategy", <<type, param1, param2>>,
                            [Device EXCEPT !.ok = c.ok], 0)
                           EXCEPT !.error = IF c.ok THEN "" ELSE "invalid_argument"]
    /\ UNCHANGED <<blocks, current_position, results, frame>>

(* ---- build_index and find_block of the selected strategy ---- *)
NoIndexBuild ==
    /\ current_strategy.kind = "none"
    /\ \E r \in {NoIndexBuildIndex(Device)} :
           /\ blocks' = r.st.blocks
           /\ current_position' = r.st.pos
           /\ last' = Call("build_index", 0, r.st, 0)
    /\ UNCHANGED <<current_strategy, results, frame>>

FixedBuild ==
    /\ current_strategy.kind = "fixed"
    /\ Len(blocks) <= MaxBlocks
    /\ \E r \in {FixedBuildIndex(Device, current_strategy.interval)} :
           /\ blocks' = r.st.blocks
           /\ current_position' = r.st.pos
           /\ current_strategy' = [current_strategy EXCEPT !.index_map = r.map]
           /\ last' = Call("build_index", 0, r.st, 0)
    /\ UNCHANGED <<results, frame>>

HierBuild ==
    /\ current_strategy.kind = "hierarchical"
    /\ Len(blocks) <= MaxBlocks
    /\ \E r \in {HierBuildIndex(Device, current_strategy.level1_interval,
                                current_strategy.level2_interval)} :
           /\ blocks' = r.st.blocks
           /\ current_position' = r.st.pos
           /\ current_strategy' = [current_strategy EXCEPT !.index_map = r.map]
           /\ last' = Call("build_index", 0, r.st, 0)
    /\ UNCHANGED <<results, frame>>

NoIndexFind(data_id) ==
    /\ current_strategy.kind = "none"
    /\ \E r \in {NoIndexFindBlock(Device, data_id)} :
           /\ blocks' = r.st.blocks
           /\ current_position' = r.st.pos
           /\ last' = Call("find_block", data_id, r.st, r.pos)
    /\ UNCHANGED <<current_strategy, results, frame>>

FixedFind(data_id) ==
    /\ current_strategy.kind = "fixed"
    /\ \E r \in {FixedFindBlock(Device, current_strategy.index_map, data_id)} :
           /\ blocks' = r.st.blocks
           /\ current_position' = r.st.pos
           /\ last' = Call("find_block", data_id, r.st, r.pos)
    /\ UNCHANGED <<current_strategy, results, frame>>

HierFind(data_id) ==
    /\ current_strategy.kind = "hierarchical"
    /\ \E r \in {HierFindBlock(Device, current_strategy.index_map,
                               current_strategy.level1_interval,
                               current_strategy.level2_interval, data_id)} :
           /\ blocks' = r.st.blocks
           /\ current_position' = r.st.pos
           /\ last' = Call("find_block", data_id, r.st, r.pos)
    /\ UNCHANGED <<current_strategy, results, frame>>

Next ==
    \/ \E block \in InputBlocks : Write(block)
    \/ ReadCurrent
    \/ \E target \in 0..MaxBlocks : Seek(target)
    \/ \E n \in MoveCounts : MoveForward(n)
    \/ \E n \in MoveCounts : MoveBackward(n)
    \/ Reset
    \/ \E type \in StrategyTypes, param1 \in 0..MaxParam, param2 \in 0..MaxParam :
           SetStrategy(type, param1, param2)
    \/ NoIndexBuild
    \/ FixedBuild
    \/ HierBuild
    \/ \E data_id \in QueryIds : NoIndexFind(data_id)
    \/ \E data_id \in QueryIds : FixedFind(data_id)
    \/ \E data_id \in QueryIds : HierFind(data_id)

Spec == Init /\ [][Next]_vars

(***************************************************************************)
(* The device on its own, searched by the strategy that keeps no index:    *)
(* a NoIndexStrategy is selected at the start and never replaced.          *)
(***************************************************************************)
InitDevice ==
    /\ blocks = <<>>
    /\ current_position = 0
    /\ current_strategy = NoIndexStrategy
    /\ results = <<>>
    /\ frame = NoFrame
    /\ last = NoCall(NoIndexStrategy)

NextDevice ==
    \/ \E block \in InputBlocks : Write(block)
    \/ ReadCurrent
    \/ \E target \in 0..MaxBlocks : Seek(target)
    \/ \E n \in MoveCounts : MoveForward(n)
    \/ \E n \in MoveCounts : MoveBackward(n)
    \/ Reset
    \/ NoIndexBuild
    \/ \E data_id \in QueryIds : NoIndexFind(data_id)

SpecDevice == InitDevice /\ [][NextDevice]_vars

(* ======================================================================= *)
(* TapeSimulator: the device, the selected strategy and the result list    *)
(* ======================================================================= *)
Simulator == [blocks |-> blocks, pos |-> current_position,
              strategy |-> current_strategy, results |-> results]

get_name(strategy) ==
    CASE strategy.kind = "none" -> "No Index"
      [] strategy.kind = "fixed" -> "Fixed Interval Index"
      [] strategy.kind = "hierarchical" -> "Hierarchical Index"

(* the virtual calls current_strategy->build_index / ->find_block *)
build_index(strategy, st) ==
    CASE strategy.kind = "none" ->
             [st |-> NoIndexBuildIndex(st).st, strategy |-> strategy]
      [] strategy.kind = "fixed" ->
             LET r == FixedBuildIndex(st, strategy.interval)
             IN  [st |-> r.st,
                  strategy |-> [strategy EXCEPT !.index_map = r.map]]
      [] strategy.kind = "hierarchical" ->
             LET r == HierBuildIndex(st, strategy.level1_interval,
                                     strategy.level2_interval)
             IN  [st |-> r.st,
                  strategy |-> [strategy EXCEPT !.index_map = r.map]]

find_block(strategy, st, data_id) ==
    CASE strategy.kind = "none" -> NoIndexFindBlock(st, data_id)
      [] strategy.kind = "fixed" ->
             FixedFindBlock(st, strategy.index_map, data_id)
      [] strategy.kind = "hierarchical" ->
             HierFindBlock(st, strategy.index_map, strategy.level1_interval,
                           strategy.level2_interval, data_id)

(* generate_test_data: the device is emptied and block_count data blocks   *)
(* are written; workload is the sequence of blocks the random generator    *)
(* draws (identifiers may repeat).                                         *)
RECURSIVE WriteAll(_, _)
WriteAll(st, workload) ==
    IF workload = <<>> THEN st
    ELSE WriteAll(write_block(st, Head(workload)), Tail(workload))

generate_test_data(st, block_count, workload) ==
    WriteAll(reset(st), SubSeq(workload, 1, block_count))

(* the one element of a one-element set: the value of a call is computed   *)
(* once and then named                                                     *)
The(S) == CHOOSE x \in S : TRUE

(* the loop over query_ids of run_simulation: every lookup is timed from   *)
(* zero and added to the totals; an exception ends the loop.               *)
(* costs lists the time each find_block returned, in query order.          *)
QueryStepCountsEveryQuery(strategy, acc, data_id) ==
    The({[st |-> r.st,
          total_access_time |-> acc.total_access_time + r.st.time,
          total_blocks_accessed |-> acc.total_blocks_accessed + 1,
          total_seeks |-> acc.total_seeks + 1,
          costs |-> Append(acc.costs, r.st.time)] :
             r \in {find_block(strategy, Exec(acc.st.blocks, acc.st.pos),
                               data_id)}})

QueryStep(strategy, acc, data_id) ==
    The({[st |-> r.st,
          total_access_time |-> acc.total_access_time + r.st.time,
          total_blocks_accessed |-> acc.total_blocks_accessed + 1,
          total_seeks |-> acc.total_seeks
                            + (IF r.st.time > 0 THEN 1 ELSE 0),
          costs |-> Append(acc.costs, r.st.time)] :
             r \in {find_block(strategy, Exec(acc.st.blocks, acc.st.pos),
                               data_id)}})

RECURSIVE QueryLoop(_, _, _)
QueryLoop(strategy, acc, query_ids) ==
    IF query_ids = <<>> \/ ~acc.st.ok THEN acc
    ELSE QueryLoop(strategy, QueryStep(strategy, acc, Head(query_ids)),
                   Tail(query_ids))

(***************************************************************************)
(* run_simulation.  A quotient of two doubles is kept as the pair          *)
(* <<numerator, denominator>>; junk is what the never-assigned             *)
(* average_access_time of a run without queries happens to hold.  The      *)
(* value carries the harness after the call, the exception thrown (if      *)
(* any), the result returned and the block sequence build_index started    *)
(* on.                                                                     *)
(***************************************************************************)
SimulationResult(strategy, b, q, junk) ==
    [strategy_name |-> get_name(strategy),
     index_build_time |-> b.st.time,
     average_access_time |->
         IF q.total_blocks_accessed > 0
         THEN <<q.total_access_time, q.total_blocks_accessed>>
         ELSE junk,
     total_seeks |-> q.total_seeks,
     total_blocks_accessed |-> q.total_blocks_accessed,
     total_access_time |-> q.total_access_time]

(* what run_simulation leaves behind once the device d0 it builds on, the  *)
(* outcome b of build_index and the outcome q of the query loop are known  *)
SimulationOutcome(sim, d0, b, q, query_ids, junk) ==
    IF ~b.st.ok
    THEN [sim |-> [sim EXCEPT !.blocks = b.st.blocks, !.pos = b.st.pos,
                              !.strategy = b.strategy],
          ok |-> FALSE, error |-> "out_of_range", runs |-> <<>>]
    ELSE IF ~q.st.ok
    THEN [sim |-> [sim EXCEPT !.blocks = q.st.blocks, !.pos = q.st.pos,
                              !.strategy = b.strategy],
          ok |-> FALSE, error |-> "out_of_range", runs |-> <<>>]
    ELSE The({[sim |-> [blocks |-> q.st.blocks, pos |-> q.st.pos,
                        strategy |-> b.strategy,
                        results |-> Append(sim.results, result)],
               ok |-> TRUE, error |-> "",
               runs |-> << [build_blocks |-> d0.blocks,
                            query_ids |-> query_ids,
                            costs |-> q.costs,
                            result |-> result] >>] :
                  result \in {SimulationResult(sim.strategy, b, q, junk)}})

run_simulationGeneratesFirst(sim, block_count, query_ids, generate_new_data, workload, junk) ==
    LET d0 == IF generate_new_data
              THEN generate_test_data(Exec(sim.blocks, sim.pos), block_count,
                                      workload)
              ELSE Exec(sim.blocks, sim.pos)
    IN  [sim |-> [sim EXCEPT !.blocks = d0.blocks, !.pos = d0.pos],
         ok |-> FALSE, error |-> "runtime_error", runs |-> <<>>]

run_simulation(sim, block_count, query_ids, generate_new_data, workload, junk) ==
    IF sim.strategy.kind = "null"
    THEN [sim |-> sim, ok |-> FALSE, error |-> "runtime_error",
          runs |-> <<>>]
    ELSE The({The({The({
             SimulationOutcome(sim, d0, b, q, query_ids, junk) :
                 q \in {QueryLoop(b.strategy,
                                  [st |-> Exec(b.st.blocks, b.st.pos),
                                   total_access_time |-> 0,
                                   total_blocks_accessed |-> 0,
                                   total_seeks |-> 0,
                                   costs |-> <<>>],
                                  query_ids)}}) :
                 b \in {build_index(sim.strategy, Exec(d0.blocks, d0.pos))}}) :
                 d0 \in {IF generate_new_data
                         THEN generate_test_data(Exec(sim.blocks, sim.pos),
                                                 block_count, workload)
                         ELSE Exec(sim.blocks, sim.pos)}})

(* the loop over strategy_types of run_comparison *)
RECURSIVE ComparisonLoop(_, _, _, _, _)
ComparisonLoop(acc, block_count, query_ids, strategy_types, junk) ==
    IF strategy_types = <<>> THEN acc
    ELSE LET c == create_strategy(Head(strategy_types), 0, 0)
         IN  IF ~c.ok
             THEN [acc EXCEPT !.ok = FALSE, !.error = "invalid_argument"]
             ELSE The({
                 IF ~r.ok
                 THEN [acc EXCEPT !.sim = r.sim, !.ok = FALSE,
                                  !.error = r.error]
                 ELSE ComparisonLoop([acc EXCEPT !.sim = r.sim,
                                                 !.runs = acc.runs \o r.runs],
                                     block_count, query_ids,
                                     Tail(strategy_types), junk) :
                     r \in {run_simulation(
                                [acc.sim EXCEPT !.strategy = c.strategy],
                                block_count, query_ids, FALSE, <<>>, junk)}})

run_comparison(sim, block_count, query_ids, strategy_types, workload, junk) ==
    LET d0 == generate_test_data(Exec(sim.blocks, sim.pos), block_count,
                                 workload)
    IN  ComparisonLoop([sim |-> [sim EXCEPT !.blocks = d0.blocks,
                                            !.pos = d0.pos],
                        ok |-> TRUE, error |-> "", runs |-> <<>>],
                       block_count, query_ids, strategy_types, junk)

(* ---- inputs of the harness ---- *)
DataBlocks == {b \in InputBlocks : ~b.is_index_block}
Workloads(block_count) == [1..block_count -> DataBlocks]
QueryListsUpTo(n) == UNION {[1..k -> QueryIds] : k \in 0..n}
QueryLists == QueryListsUpTo(MaxQueries)
TypeLists == UNION {[1..n -> StrategyTypes] : n \in 0..MaxTypes}
Indeterminate == {<<0, 1>>, <<1, 1>>}
(* junk is only ever read by a run without queries *)
Junk(query_ids) == IF query_ids = <<>> THEN Indeterminate ELSE {<<0, 1>>}

HarnessCall(op, arg, r) ==
    [Call(op, arg, [Exec(r.sim.blocks, r.sim.pos) EXCEPT !.ok = r.ok], 0)
     EXCEPT !.error = r.error, !.runs = r.runs]

RunSimulation(block_count, query_ids, generate_new_data, workload, junk) ==
    /\ generate_new_data \/ Len(blocks) <= MaxBlocks
    /\ \E r \in {run_simulation(Simulator, block_count, query_ids,
                                generate_new_data, workload, junk)} :
           /\ blocks' = r.sim.blocks
           /\ current_position' = r.sim.pos
           /\ current_strategy' = r.sim.strategy
           /\ results' = r.sim.results
           /\ last' = HarnessCall("run_simulation",
                          [block_count |-> block_count,
                           query_ids |-> query_ids,
                           generate_new_data |-> generate_new_data,
                           workload |-> workload], r)
    /\ UNCHANGED frame

RunComparison(block_count, query_ids, strategy_types, workload, junk) ==
    /\ \E r \in {run_comparison(Simulator, block_count, query_ids,
                                strategy_types, workload, junk)} :
           /\ blocks' = r.sim.blocks
           /\ current_position' = r.sim.pos
           /\ current_strategy' = r.sim.strategy
           /\ results' = r.sim.results
           /\ last' = HarnessCall("run_comparison",
                          [block_count |-> block_count,
                           query_ids |-> query_ids,
                           strategy_types |-> strategy_types,
                           workload |-> workload], r)
    /\ UNCHANGED frame

NextHarness ==
    \/ \E type \in StrategyTypes : \E param1, param2 \in 0..MaxParam :
           SetStrategy(type, param1, param2)
    \/ /\ Len(results) < MaxResults
       /\ \E block_count \in 0..MaxWorkload : \E query_ids \in QueryLists :
          \E generate_new_data \in BOOLEAN :
          \E workload \in Workloads(block_count) :
          \E junk \in Junk(query_ids) :
              RunSimulation(block_count, query_ids, generate_new_data,
                            workload, junk)
    \/ /\ Len(results) < MaxResults
       /\ \E block_count \in 0..MaxWorkload : \E query_ids \in QueryLists :
          \E strategy_types \in TypeLists :
          \E workload \in Workloads(block_count) :
          \E junk \in Junk(query_ids) :
              RunComparison(block_count, query_ids, strategy_types,
                            workload, junk)

SpecHarness == Init /\ [][NextHarness]_vars

(***************************************************************************)
(* The result log: strategies are selected with the factory's defaults and *)
(* run one after another, each run with up to MaxLogQueries query ids.     *)
(***************************************************************************)
NextSimulation ==
    \/ \E type \in StrategyTypes : SetStrategy(type, 0, 0)
    \/ /\ Len(results) < MaxLog
       /\ \E block_count \in 0..MaxWorkload :
          \E query_ids \in QueryListsUpTo(MaxLogQueries) :
          \E generate_new_data \in BOOLEAN :
          \E workload \in Workloads(block_count) :
          \E junk \in Junk(query_ids) :
              RunSimulation(block_count, query_ids, generate_new_data,
                            workload, junk)

SpecSimulation == Init /\ [][NextSimulation]_vars

(* ======================================================================= *)
(* FixedIntervalIndexStrategy::build_index taken one loop pass at a time:  *)
(* frame holds the locals of the call (where it stands, the loop counter   *)
(* i, original_pos, the time added up so far) and the block sequence the   *)
(* call started on.                                                        *)
(* ======================================================================= *)
Devices == UNION {[1..n -> InputBlocks] : n \in 1..MaxBlocks}
Intervals == (1..(MaxParam + 1)) \cup {DefaultFixedInterval}

InitFixedBuild ==
    /\ blocks \in Devices
    /\ current_position \in 0..(Len(blocks) - 1)
    /\ \E interval \in Intervals :
           current_strategy = FixedIntervalIndexStrategy(interval)
    /\ results = <<>>
    /\ frame = [NoFrame EXCEPT !.pc = "call"]
    /\ last = NoCall(current_strategy)

(* lines 307-312: clear the map, remember the head, seek to block 0 *)
FixedBuildEnter ==
    /\ frame.pc = "call"
    /\ \E s0 \in {seek_to_block(Device, 0)} :
           /\ blocks' = s0.blocks
           /\ current_position' = s0.pos
           /\ current_strategy' = [current_strategy EXCEPT !.index_map = {}]
           /\ frame' = [pc |-> IF s0.ok THEN "loop" ELSE "thrown",
                        i |-> 0, original_pos |-> current_position,
                        entry_blocks |-> blocks, time |-> s0.time]
    /\ UNCHANGED <<results, last>>

(* one pass through the loop body while i < get_block_count() *)
FixedBuildStep ==
    /\ frame.pc = "loop"
    /\ frame.i < Len(blocks)
    /\ Len(blocks) <= 2 * MaxBlocks
    /\ \E b \in {FixedBuildBody([Device EXCEPT !.time = frame.time],
                                current_strategy.index_map, frame.i,
                                current_strategy.interval)} :
           /\ blocks' = b.st.blocks
           /\ current_position' = b.st.pos
           /\ current_strategy' = [current_strategy EXCEPT !.index_map = b.map]
           /\ frame' = [frame EXCEPT !.pc = IF b.st.ok THEN "loop" ELSE "thrown",
                                     !.i = frame.i + 1,
                                     !.time = b.st.time]
    /\ UNCHANGED <<results, last>>

(* the loop condition fails: seek back to original_pos and return *)
FixedBuildReturn ==
    /\ frame.pc = "loop"
    /\ frame.i >= Len(blocks)
    /\ \E s1 \in {seek_to_block([Device EXCEPT !.time = frame.time],
                                frame.original_pos)} :
           /\ blocks' = s1.blocks
           /\ current_position' = s1.pos
           /\ frame' = [frame EXCEPT !.pc = IF s1.ok THEN "done" ELSE "thrown",
                                     !.time = s1.time]
    /\ UNCHANGED <<current_strategy, results, last>>

NextFixedBuild ==
    \/ FixedBuildEnter
    \/ FixedBuildStep
    \/ FixedBuildReturn

(* the call is a single thread of straight-line code: it keeps running *)
SpecFixedBuild ==
    InitFixedBuild /\ [][NextFixedBuild]_vars /\ WF_vars(NextFixedBuild)

(* ======================================================================= *)
(* Properties                                                              *)
(* ======================================================================= *)
Min(S) == CHOOSE x \in S : \A y \in S : x <= y
ReadTicks(b) == b.size * (TicksPerSecond \div read_speed)

RECURSIVE SumReads(_, _)
SumReads(bs, positions) ==
    IF positions = <<>> THEN 0
    ELSE ReadTicks(bs[Head(positions) + 1]) + SumReads(bs, Tail(positions))

(* a device of data blocks only, with pairwise distinct identifiers *)
FreshData(bs) ==
    /\ Len(bs) >= 1
    /\ \A i \in 1..Len(bs) : ~bs[i].is_index_block
    /\ \A i, j \in 1..Len(bs) : bs[i].block_id = bs[j].block_id => i = j

AfterBuild(kind) ==
    last.op = "build_index" /\ last.pre_strategy.kind = kind
AfterFind(kind) ==
    last.op = "find_block" /\ last.pre_strategy.kind = kind

(* C1: a fixed-interval build over a fresh device of M distinct data       *)
(* blocks with interval K leaves a map of exactly M entries and exactly    *)
(* floor(M/K) new blocks, all of them index blocks.                        *)
C1_FixedBuildCounts ==
    (AfterBuild("fixed") /\ FreshData(last.pre_blocks)) =>
        LET M == Len(last.pre_blocks)
            K == current_strategy.interval
        IN  /\ last.ok
            /\ MapSize(current_strategy.index_map) = M
            /\ Len(blocks) = M + (M \div K)
            /\ \A i \in (M + 1)..Len(blocks) : blocks[i].is_index_block

(* C2: after a fixed-interval build over a fresh device every data block's *)
(* identifier resolves through find_block to the position where the data   *)
(* block with that identifier sits.                                         *)
C2_FixedRoundTrip ==
    (AfterBuild("fixed") /\ FreshData(last.pre_blocks)) =>
        \A p \in 1..Len(last.pre_blocks) :
            LET d == last.pre_blocks[p].block_id
                r == FixedFindBlock(Device, current_strategy.index_map, d)
            IN  /\ r.st.ok
                /\ r.pos # npos
                /\ r.pos < Len(blocks)
                /\ blocks[r.pos + 1] = last.pre_blocks[p]

(* C3: after a hierarchical build over a fresh device every present        *)
(* identifier whose candidate position (l1 * L1 + l2) * L2 is below        *)
(* block_count - 2 is resolved by find_block to a position holding a block  *)
(* with that identifier.                                                    *)
C3_HierFindWithinClamp ==
    (AfterBuild("hierarchical") /\ FreshData(last.pre_blocks)) =>
        \A p \in 1..Len(last.pre_blocks) :
            LET d == last.pre_blocks[p].block_id
                m == current_strategy.index_map
                L1 == current_strategy.level1_interval
                L2 == current_strategy.level2_interval
                cand == (MapGet(m, d)[1] * L1 + MapGet(m, d)[2]) * L2
                r == HierFindBlock(Device, m, L1, L2, d)
            IN  (MapHas(m, d) /\ cand < Len(blocks) - 2) =>
                    /\ r.st.ok
                    /\ r.pos # npos
                    /\ r.pos < Len(blocks)
                    /\ blocks[r.pos + 1].block_id = d

(* positions in circular order from h on a device of N blocks *)
Circular(h, N, k) == [i \in 1..k |-> (h + i - 1) % N]

(* offsets i (0-based, circular from h) of the non-index blocks with id d *)
Matches(bs, h, d) ==
    {i \in 0..(Len(bs) - 1) :
        LET b == bs[((h + i) % Len(bs)) + 1]
        IN  ~b.is_index_block /\ b.block_id = d}

(* C4: the no-index lookup returns the first non-index block with the      *)
(* queried identifier in circular order from the head, having read exactly *)
(* the blocks up to it; with no such block it returns 'not found' after    *)
(* reading all N blocks once each, in circular order.                      *)
C4_NoIndexResult ==
    (AfterFind("none") /\ Len(last.pre_blocks) >= 1) =>
        LET bs == last.pre_blocks
            N == Len(bs)
            h == last.pre_position
            hits == Matches(bs, h, last.arg)
        IN  /\ last.ok
            /\ blocks = bs
            /\ IF hits = {}
               THEN /\ last.pos = npos
                    /\ last.reads = Circular(h, N, N)
               ELSE /\ last.pos = (h + Min(hits)) % N
                    /\ last.reads = Circular(h, N, Min(hits) + 1)
                    /\ current_position = last.pos
            /\ \A p \in 0..(N - 1) :
                   (hits = {(p - h + N) % N}) => last.pos = p

C4_Witness ==
    /\ AfterFind("none")
    /\ Len(last.pre_blocks) >= 3
    /\ last.pos # npos
    /\ last.pos < last.pre_position
    /\ \E i \in 1..Len(last.reads) :
           /\ last.pre_blocks[last.reads[i] + 1].is_index_block
           /\ last.pre_blocks[last.reads[i] + 1].block_id = last.arg

(* the data positions holding identifier d *)
DataPositions(bs, d) ==
    {p \in 0..(Len(bs) - 1) :
        ~bs[p + 1].is_index_block /\ bs[p + 1].block_id = d}

(* C5 as stated: the no-index lookup of an identifier present exactly once *)
(* at p costs ((p - h) mod N) block steps of seeking plus the reads of the *)
(* ((p - h) mod N) + 1 blocks visited; an absent identifier costs N reads  *)
(* plus N - 1 block steps, whatever the head position.                     *)
C5_CircularCost ==
    (AfterFind("none") /\ Len(last.pre_blocks) >= 1) =>
        LET bs == last.pre_blocks
            N == Len(bs)
            h == last.pre_position
            at == DataPositions(bs, last.arg)
        IN  /\ \A p \in at :
                   at = {p} =>
                       last.time = ((p - h + N) % N) * seek_time_per_block
                           + SumReads(bs, Circular(h, N, ((p - h + N) % N) + 1))
            /\ at = {} =>
                   last.time = (N - 1) * seek_time_per_block
                       + SumReads(bs, Circular(h, N, N))

(* block steps of seeking of a scan from h that reads k blocks in circular *)
(* order: the wrap from the last block back to block 0 is a seek over      *)
(* N - 1 blocks.                                                           *)
ScanSteps(h, N, k) ==
    IF h + k <= N THEN k - 1
    ELSE (N - 1 - h) + (N - 1) + (h + k - N - 1)

(* C5 amended: the seek part of the cost is the distance the head travels, *)
(* p - h when p >= h and (N - 1 - h) + (N - 1) + p when the scan wraps;    *)
(* an absent identifier costs N reads plus N - 1 block steps from h = 0    *)
(* and 2N - 3 block steps from any h > 0.                                  *)
C5_TravelCost ==
    (AfterFind("none") /\ Len(last.pre_blocks) >= 1) =>
        LET bs == last.pre_blocks
            N == Len(bs)
            h == last.pre_position
            at == DataPositions(bs, last.arg)
        IN  /\ \A p \in at :
                   at = {p} =>
                       last.time =
                           (IF p >= h THEN p - h
                            ELSE (N - 1 - h) + (N - 1) + p) * seek_time_per_block
                           + SumReads(bs, Circular(h, N, ((p - h + N) % N) + 1))
            /\ at = {} =>
                   last.time =
                       (IF h = 0 THEN N - 1 ELSE 2 * N - 3) * seek_time_per_block
                       + SumReads(bs, Circular(h, N, N))

C5_Witness ==
    /\ AfterFind("none")
    /\ Len(last.pre_blocks) >= 3
    /\ DataPositions(last.pre_blocks, last.arg) = {last.pos}
    /\ last.pos < last.pre_position
    /\ last.pos > 0
    /\ last.time > 0

(* C6: whenever the device holds a block, the head is a valid index.       *)
C6_HeadValid ==
    Len(blocks) >= 1 =>
        (0 <= current_position /\ current_position < Len(blocks))

C6_Witness ==
    /\ ~last.ok
    /\ last.op = "find_block"
    /\ Len(blocks) >= 1
    /\ current_position # last.pre_position

(* C7: a seek to a target below the block count succeeds, leaves the head  *)
(* at the target and the blocks as they were, and costs |t - h| seek steps. *)
C7_SeekPost ==
    (last.op = "seek" /\ last.arg < Len(last.pre_blocks)) =>
        /\ last.ok
        /\ current_position = last.arg
        /\ blocks = last.pre_blocks
        /\ last.time = Abs(last.arg - last.pre_position) * seek_time_per_block

C7_Witness ==
    /\ last.op = "seek"
    /\ last.ok
    /\ last.arg < last.pre_position
    /\ last.time = 2 * seek_time_per_block

Unchanged == blocks = last.pre_blocks /\ current_position = last.pre_position

(* C8: a seek to a target at or beyond the block count and a read with the *)
(* head at or beyond it fail; that is every seek and read on an empty      *)
(* device; a failed seek or read changes neither the head nor the blocks.   *)
C8_OutOfRange ==
    /\ (last.op = "seek" /\ last.arg >= Len(last.pre_blocks)) =>
           (~last.ok /\ Unchanged)
    /\ (last.op = "read_current" /\ last.pre_position >= Len(last.pre_blocks)) =>
           (~last.ok /\ Unchanged)
    /\ (last.op \in {"seek", "read_current"} /\ last.pre_blocks = <<>>) =>
           ~last.ok
    /\ (last.op \in {"seek", "read_current"} /\ ~last.ok) => Unchanged

C8_Witness ==
    /\ last.op = "seek"
    /\ ~last.ok
    /\ last.arg = Len(blocks)
    /\ current_position > 0

(* C9: on a device of N >= 1 blocks move_forward(n) leaves the head at     *)
(* min(h + n, N - 1) and move_backward(n) at max(h - n, 0), for every n    *)
(* a size_t holds, and the cost is the seek cost of the distance moved.    *)
C9_ClampedMoves ==
    LET N == Len(last.pre_blocks)
        h == last.pre_position
        n == last.arg
    IN  /\ (last.op = "move_forward" /\ N >= 1) =>
               /\ last.ok
               /\ current_position = (IF h + n < N - 1 THEN h + n ELSE N - 1)
               /\ blocks = last.pre_blocks
               /\ last.time = (current_position - h) * seek_time_per_block
        /\ (last.op = "move_backward" /\ N >= 1) =>
               /\ last.ok
               /\ current_position = (IF h - n > 0 THEN h - n ELSE 0)
               /\ blocks = last.pre_blocks
               /\ last.time = (h - current_position) * seek_time_per_block

(* C10: find_block of any strategy against a device with no blocks returns *)
(* 'not found' with zero cost and raises no error.                         *)
C10_EmptyLookups ==
    (last.op = "find_block" /\ last.pre_blocks = <<>>) =>
        (last.ok /\ last.pos = npos /\ last.time = 0)

(* C11: a hierarchical build on N >= 1 blocks appends exactly two empty    *)
(* index blocks, the level-2 summary at N and the level-1 summary at       *)
(* N + 1, and leaves blocks 0..N-1 as they were, on every call.            *)
C11_HierAppendsTwo ==
    (AfterBuild("hierarchical") /\ Len(last.pre_blocks) >= 1) =>
        LET N == Len(last.pre_blocks)
        IN  /\ last.ok
            /\ Len(blocks) = N + 2
            /\ SubSeq(blocks, 1, N) = last.pre_blocks
            /\ blocks[N + 1] = TapeBlock(Level2BlockId, 0, TRUE)
            /\ blocks[N + 2] = TapeBlock(Level1BlockId, 0, TRUE)

(* a repeated build: the device already ended with the two summaries *)
C11_Witness ==
    /\ AfterBuild("hierarchical")
    /\ Len(last.pre_blocks) >= 3
    /\ last.pre_blocks[Len(last.pre_blocks)] = TapeBlock(Level1BlockId, 0, TRUE)
    /\ last.pre_blocks[Len(last.pre_blocks) - 1] = TapeBlock(Level2BlockId, 0, TRUE)
    /\ Len(blocks) = Len(last.pre_blocks) + 2

(* C12: build_index of every strategy on a device of N >= 1 blocks leaves  *)
(* the head where it was when the call started.                            *)
C12_HeadRestored ==
    (last.op = "build_index" /\ Len(last.pre_blocks) >= 1) =>
        (last.ok /\ current_position = last.pre_position)

C12_Witness ==
    /\ AfterBuild("fixed")
    /\ last.pre_position > 0
    /\ Len(blocks) > Len(last.pre_blocks)
    /\ current_position = last.pre_position

IsPrefix(s, t) == Len(s) <= Len(t) /\ SubSeq(t, 1, Len(s)) = s

(* C13: run_comparison generates the workload once; every named strategy  *)
(* is built and queried against the identical block sequence and the same  *)
(* query ids, and the call returns one result per strategy name, in the    *)
(* order of the names.                                                     *)
C13_SharedWorkload ==
    (last.op = "run_comparison" /\ last.ok) =>
        /\ Len(last.runs) = Len(last.arg.strategy_types)
        /\ \A k \in 1..Len(last.runs) :
               /\ last.runs[k].result.strategy_name =
                      get_name(create_strategy(last.arg.strategy_types[k],
                                               0, 0).strategy)
               /\ last.runs[k].query_ids = last.arg.query_ids
        /\ \A j, k \in 1..Len(last.runs) :
               last.runs[j].build_blocks = last.runs[k].build_blocks

(* C14: every step other than reset keeps the block sequence as a prefix   *)
(* of the new one: no block is removed, moved or changed.                  *)
C14_AppendOnly ==
    [][last'.op # "reset" => IsPrefix(blocks, blocks')]_vars

C14_Witness ==
    /\ AfterBuild("fixed")
    /\ Len(last.pre_blocks) >= 2
    /\ Len(blocks) > Len(last.pre_blocks)
    /\ IsPrefix(last.pre_blocks, blocks)

(* C15: run_simulation on a harness without a selected strategy fails with *)
(* a runtime error before touching anything: the device is not             *)
(* regenerated even when generate_new_data is true, and no result is       *)
(* appended to the result list.                                            *)
C15_NoActiveStrategy ==
    (last.op = "run_simulation" /\ last.pre_strategy.kind = "null") =>
        /\ ~last.ok
        /\ last.error = "runtime_error"
        /\ Unchanged
        /\ results = last.pre_results
        /\ current_strategy = last.pre_strategy

C15_Witness ==
    /\ last.op = "run_simulation"
    /\ last.pre_strategy.kind = "null"
    /\ last.arg.generate_new_data
    /\ last.arg.block_count > 0
    /\ Len(last.pre_blocks) > 0
    /\ last.arg.workload # last.pre_blocks
    /\ ~last.ok

(* C16: the factory builds a no-index strategy for "none", a fixed         *)
(* strategy with interval param1 (10 when 0) for "fixed", a hierarchical   *)
(* strategy with intervals param1 (100 when 0) and param2 (10 when 0) for  *)
(* "hierarchical", and fails, building nothing, for any other name; no     *)
(* strategy it builds has a zero interval.                                 *)
C16_Factory ==
    /\ last.op = "set_strategy" =>
           LET type == last.arg[1]
               param1 == last.arg[2]
               param2 == last.arg[3]
           IN  /\ type = "none" =>
                      (last.ok /\ current_strategy.kind = "none")
               /\ type = "fixed" =>
                      /\ last.ok
                      /\ current_strategy.kind = "fixed"
                      /\ current_strategy.interval =
                             (IF param1 > 0 THEN param1 ELSE 10)
               /\ type = "hierarchical" =>
                      /\ last.ok
                      /\ current_strategy.kind = "hierarchical"
                      /\ current_strategy.level1_interval =
                             (IF param1 > 0 THEN param1 ELSE 100)
                      /\ current_strategy.level2_interval =
                             (IF param2 > 0 THEN param2 ELSE 10)
               /\ type \notin {"none", "fixed", "hierarchical"} =>
                      (~last.ok /\ current_strategy = last.pre_strategy)
               /\ last.ok => current_strategy.index_map = {}
    /\ current_strategy.kind = "fixed" => current_strategy.interval >= 1
    /\ current_strategy.kind = "hierarchical" =>
           /\ current_strategy.level1_interval >= 1
           /\ current_strategy.level2_interval >= 1

C16_Witness ==
    /\ last.op = "set_strategy"
    /\ last.arg = <<"hierarchical", 0, 1>>
    /\ current_strategy.level1_interval = 100
    /\ current_strategy.level2_interval = 1

(* C17: write_block appends exactly the block, leaves the head alone and   *)
(* costs size / write throughput; read_current_block with the head on a    *)
(* block reads that block, changes nothing and costs size / read           *)
(* throughput.                                                             *)
C17_TransferCosts ==
    /\ last.op = "write" =>
           /\ last.ok
           /\ blocks = Append(last.pre_blocks, last.arg)
           /\ current_position = last.pre_position
           /\ last.time * write_speed = last.arg.size * TicksPerSecond
           /\ last.arg.size = 0 => last.time = 0
    /\ (last.op = "read_current" /\ last.pre_position < Len(last.pre_blocks)) =>
           /\ last.ok
           /\ Unchanged
           /\ last.reads = <<last.pre_position>>
           /\ last.time * read_speed =
                  blocks[last.pre_position + 1].size * TicksPerSecond
           /\ blocks[last.pre_position + 1].size = 0 => last.time = 0

C17_Witness ==
    /\ last.op = "read_current"
    /\ last.ok
    /\ last.pre_position > 0
    /\ blocks[last.pre_position + 1].size = 2
    /\ last.time > 0

SummariesAtEnd(bs) ==
    /\ Len(bs) >= 3
    /\ bs[Len(bs) - 1] = TapeBlock(Level2BlockId, 0, TRUE)
    /\ bs[Len(bs)] = TapeBlock(Level1BlockId, 0, TRUE)

(* C18 as stated: on a device that ends with the two summary blocks every  *)
(* hierarchical find_block, also one for an identifier that is not in the  *)
(* index, seeks to and reads positions block_count - 2 and block_count - 1. *)
C18_AlwaysReadsSummaries ==
    (AfterFind("hierarchical") /\ SummariesAtEnd(last.pre_blocks)) =>
        LET N == Len(last.pre_blocks)
        IN  /\ Len(last.reads) >= 2
            /\ last.reads[1] = N - 2
            /\ last.reads[2] = N - 1
            /\ Len(last.seeks) >= 2
            /\ last.seeks[1] = N - 2
            /\ last.seeks[2] = N - 1

(* C18 amended: a hierarchical find_block for an identifier that is in the *)
(* index map, on a device of at least two blocks, first seeks to and reads *)
(* block_count - 2 and then block_count - 1, and the cost it returns       *)
(* includes them; for an identifier that is not in the index map it        *)
(* returns 'not found' at zero cost without touching the device.           *)
C18_ReadsSummariesOnHit ==
    AfterFind("hierarchical") =>
        LET bs == last.pre_blocks
            N == Len(bs)
            h == last.pre_position
            inMap == MapHas(last.pre_strategy.index_map, last.arg)
        IN  /\ (inMap /\ N >= 2) =>
                   /\ Len(last.reads) >= 2
                   /\ last.reads[1] = N - 2
                   /\ last.reads[2] = N - 1
                   /\ Len(last.seeks) >= 2
                   /\ last.seeks[1] = N - 2
                   /\ last.seeks[2] = N - 1
                   /\ last.ok =>
                          /\ Len(last.seeks) = 3
                          /\ last.time =
                                 (Abs(N - 2 - h) + 1
                                      + Abs(last.seeks[3] - (N - 1)))
                                     * seek_time_per_block
                                 + SumReads(bs, last.reads)
            /\ ~inMap =>
                   /\ last.ok
                   /\ last.pos = npos
                   /\ last.time = 0
                   /\ last.reads = <<>>
                   /\ last.seeks = <<>>
                   /\ Unchanged

C18_Witness ==
    /\ AfterFind("hierarchical")
    /\ SummariesAtEnd(last.pre_blocks)
    /\ MapHas(last.pre_strategy.index_map, last.arg)
    /\ last.ok
    /\ last.pos # npos
    /\ last.time > 0

(* C19: on every device with at least one block and for every interval    *)
(* K >= 1, the fixed-interval build_index runs to completion, although     *)
(* its loop bound grows with every index block the loop appends.           *)
C19_FixedBuildTerminates == <>(frame.pc = "done")

(* the finished call, step by step, ends where the call taken as a whole   *)
(* ends                                                                    *)
FixedBuildStepsAgree ==
    frame.pc = "done" =>
        LET r == FixedBuildIndex(Exec(frame.entry_blocks, frame.original_pos),
                                 current_strategy.interval)
        IN  /\ r.st.ok
            /\ blocks = r.st.blocks
            /\ current_position = r.st.pos
            /\ current_strategy.index_map = r.map
            /\ frame.time = r.st.time

C19_Witness ==
    /\ frame.pc = "done"
    /\ Len(blocks) >= Len(frame.entry_blocks) + 2
    /\ \E p \in 1..Len(frame.entry_blocks) :
           frame.entry_blocks[p].is_index_block
    /\ \E p, q \in 1..Len(frame.entry_blocks) :
           /\ p # q
           /\ frame.entry_blocks[p] = frame.entry_blocks[q]
           /\ ~frame.entry_blocks[p].is_index_block

(* C20: a fixed-interval find_block for an identifier that is not in the   *)
(* index map returns 'not found' at zero cost and touches nothing; when    *)
(* the block read at the recorded position has another identifier it       *)
(* returns 'not found' with the seek and read cost and leaves the head at  *)
(* the recorded position.                                                  *)
C20_FixedMiss ==
    AfterFind("fixed") =>
        LET bs == last.pre_blocks
            m == last.pre_strategy.index_map
            d == last.arg
        IN  /\ ~MapHas(m, d) =>
                   /\ last.ok
                   /\ last.pos = npos
                   /\ last.time = 0
                   /\ last.reads = <<>>
                   /\ last.seeks = <<>>
                   /\ Unchanged
            /\ (MapHas(m, d) /\ MapGet(m, d) < Len(bs)
                    /\ bs[MapGet(m, d) + 1].block_id # d) =>
                   /\ last.ok
                   /\ last.pos = npos
                   /\ last.time =
                          Abs(MapGet(m, d) - last.pre_position)
                              * seek_time_per_block
                          + ReadTicks(bs[MapGet(m, d) + 1])
                   /\ current_position = MapGet(m, d)
                   /\ blocks = bs

C20_Witness ==
    /\ AfterFind("fixed")
    /\ MapHas(last.pre_strategy.index_map, last.arg)
    /\ last.ok
    /\ last.pos = npos
    /\ last.time > 0
    /\ current_position # last.pre_position

RECURSIVE SumSeq(_)
SumSeq(seq) == IF seq = <<>> THEN 0 ELSE Head(seq) + SumSeq(Tail(seq))

(* C21: a run_simulation call that completes appends exactly one record to *)
(* the result list and leaves the earlier records as they were; the record *)
(* counts as many queries as there are query ids, its seeks count is the   *)
(* number of queries whose find_block cost was nonzero (hence at most the  *)
(* number of queries), and its total query time is the sum of the costs;   *)
(* a call that fails appends nothing.                                      *)
C21_ResultLog ==
    last.op = "run_simulation" =>
        IF last.ok
        THEN /\ Len(results) = Len(last.pre_results) + 1
             /\ SubSeq(results, 1, Len(last.pre_results)) = last.pre_results
             /\ Len(last.runs) = 1
             /\ LET record == results[Len(results)]
                    costs == last.runs[1].costs
                IN  /\ record = last.runs[1].result
                    /\ Len(costs) = Len(last.arg.query_ids)
                    /\ record.total_blocks_accessed = Len(last.arg.query_ids)
                    /\ record.total_seeks =
                           Cardinality({k \in 1..Len(costs) : costs[k] > 0})
                    /\ record.total_seeks <= record.total_blocks_accessed
                    /\ record.total_access_time = SumSeq(costs)
        ELSE results = last.pre_results

C21_Witness ==
    /\ last.op = "run_simulation"
    /\ last.ok
    /\ Len(last.pre_results) >= 1
    /\ Len(last.arg.query_ids) = 2
    /\ \E j, k \in 1..2 :
           /\ last.runs[1].costs[j] = 0
           /\ last.runs[1].costs[k] > 0
    /\ results[Len(results)].total_seeks = 1

(* a failing run_simulation after an earlier record was logged *)
FailedRunAfterRecord ==
    /\ last.op = "run_simulation"
    /\ ~last.ok
    /\ last.pre_strategy.kind # "null"
    /\ Len(last.pre_results) >= 1

(* C22: whenever find_block of any of the three strategies returns a       *)
(* position rather than 'not found', the position is a valid index of the  *)
(* device, the block stored there has the queried identifier, and the head *)
(* is left there.                                                          *)
C22_LookupSound ==
    (last.op = "find_block" /\ last.ok /\ last.pos # npos) =>
        /\ last.pos < Len(blocks)
        /\ blocks[last.pos + 1].block_id = last.arg
        /\ current_position = last.pos
        /\ blocks = last.pre_blocks

C22_Witness ==
    /\ AfterFind("hierarchical")
    /\ last.ok
    /\ last.pos # npos
    /\ \E p \in 1..Len(blocks) :
           ~blocks[p].is_index_block /\ blocks[p].block_id # last.arg

FoundBy(kind) ==
    AfterFind(kind) /\ last.ok /\ last.pos # npos /\ last.pos > 0

====
